---- MODULE Spec2Model ----
(***************************************************************************)
(* The useLocalStorage hook (src/src/hooks/useLocalStorage.ts) and its     *)
(* caller NotesWidget, as a state machine.                                 *)
(*                                                                         *)
(* A handle is one call site of the hook in one mounted component.  React  *)
(* keeps, per handle, a state cell (state) that setStoredValue replaces     *)
(* at once, and the render binds the cell's content to the closure         *)
(* variable storedValue; setValue is re-created by useCallback at each     *)
(* render and reads the storedValue of that render.                        *)
(*                                                                         *)
(* JavaScript values are records [kind, items]; texts (the strings kept in *)
(* localStorage) are sequences of one-character strings, so JSON.stringify *)
(* and JSON.parse are computed character by character.                     *)
(***************************************************************************)
EXTENDS Naturals, Sequences, FiniteSets

\* ------------------------------------------------------------------ bounds
\* the longest notes array the callers build
MaxNotes == 2
\* the number of hook operations (useLocalStorage calls at mount, setValue
\* calls) of one run
MaxOps == 3

\* ------------------------------------------------------------- characters
DQ == "\""
BS == "\\"

\* ------------------------------------------------------- JavaScript values
Arr(xs) == [kind |-> "array", items |-> xs]
Str(s) == [kind |-> "string", items |-> <<s>>]
Num(ds) == [kind |-> "number", items |-> <<ds>>]
Null == [kind |-> "null", items |-> <<>>]
Undefined == [kind |-> "undefined", items |-> <<>>]
\* an object that refers to itself: JSON.stringify throws a TypeError on it
Circular == [kind |-> "circular", items |-> <<>>]

\* the note texts the user types: plain, and one with JSON's own delimiters
NoteTexts == { <<"a">>, <<DQ, ",">> }

Digits == {"0", "1", "2", "3", "4", "5", "6", "7", "8", "9"}

\* ---------------------------------------------------------- JSON.stringify
RECURSIVE EscapeChars(_)
EscapeChars(s) ==
    IF s = <<>> THEN <<>>
    ELSE (IF Head(s) \in {DQ, BS} THEN <<BS, Head(s)>> ELSE <<Head(s)>>)
         \o EscapeChars(Tail(s))

Quote(s) == <<DQ>> \o EscapeChars(s) \o <<DQ>>

RECURSIVE JoinQuoted(_)
JoinQuoted(xs) ==
    IF xs = <<>> THEN <<>>
    ELSE IF Len(xs) = 1 THEN Quote(xs[1])
    ELSE Quote(xs[1]) \o <<",">> \o JoinQuoted(Tail(xs))

\* [threw, undef, text]: undef is JSON.stringify returning undefined
JSON_stringify(v) ==
    CASE v.kind = "array" ->
             [threw |-> FALSE, undef |-> FALSE,
              text |-> <<"[">> \o JoinQuoted(v.items) \o <<"]">>]
      [] v.kind = "string" ->
             [threw |-> FALSE, undef |-> FALSE, text |-> Quote(v.items[1])]
      [] v.kind = "number" ->
             [threw |-> FALSE, undef |-> FALSE, text |-> v.items[1]]
      [] v.kind = "null" ->
             [threw |-> FALSE, undef |-> FALSE, text |-> <<"n", "u", "l", "l">>]
      [] v.kind = "undefined" ->
             [threw |-> FALSE, undef |-> TRUE, text |-> <<>>]
      [] OTHER ->
             [threw |-> TRUE, undef |-> FALSE, text |-> <<>>]

\* Storage.setItem converts its argument to a string: String(undefined)
ToStorageString(r) ==
    IF r.undef THEN <<"u", "n", "d", "e", "f", "i", "n", "e", "d">> ELSE r.text

\* -------------------------------------------------------------- JSON.parse
\* The fragment of JSON the texts of this model use: null, unsigned
\* integers, strings with \" and \\ escapes, arrays of strings; no blanks.
Failed == [ok |-> FALSE, chars |-> <<>>, next |-> 0]

\* the characters of a string literal whose opening quote is before t[i]
RECURSIVE ScanString(_, _, _)
ScanString(t, i, acc) ==
    IF i > Len(t) THEN Failed
    ELSE IF t[i] = DQ THEN [ok |-> TRUE, chars |-> acc, next |-> i + 1]
    ELSE IF t[i] = BS THEN
        IF i + 1 <= Len(t) /\ t[i + 1] \in {DQ, BS}
        THEN ScanString(t, i + 2, Append(acc, t[i + 1]))
        ELSE Failed
    ELSE ScanString(t, i + 1, Append(acc, t[i]))

ParseString(t, i) ==
    IF i <= Len(t) /\ t[i] = DQ THEN ScanString(t, i + 1, <<>>) ELSE Failed

\* the elements of an array, t[i] being the start of an element
RECURSIVE ParseElements(_, _, _)
ParseElements(t, i, acc) ==
    LET s == ParseString(t, i) IN
    IF ~s.ok THEN [ok |-> FALSE, items |-> <<>>]
    ELSE IF s.next = Len(t) /\ t[s.next] = "]"
         THEN [ok |-> TRUE, items |-> Append(acc, s.chars)]
    ELSE IF s.next < Len(t) /\ t[s.next] = ","
         THEN ParseElements(t, s.next + 1, Append(acc, s.chars))
    ELSE [ok |-> FALSE, items |-> <<>>]

IsNumberText(t) ==
    /\ Len(t) >= 1
    /\ \A i \in 1..Len(t) : t[i] \in Digits
    /\ (Len(t) > 1 => t[1] # "0")

\* [threw, value]: threw is the SyntaxError of JSON.parse
JSON_parse(t) ==
    IF t = <<"n", "u", "l", "l">> THEN [threw |-> FALSE, value |-> Null]
    ELSE IF IsNumberText(t) THEN [threw |-> FALSE, value |-> Num(t)]
    ELSE IF t # <<>> /\ t[1] = DQ THEN
        LET s == ParseString(t, 1) IN
        IF s.ok /\ s.next = Len(t) + 1
        THEN [threw |-> FALSE, value |-> Str(s.chars)]
        ELSE [threw |-> TRUE, value |-> Undefined]
    ELSE IF t = <<"[", "]">> THEN [threw |-> FALSE, value |-> Arr(<<>>)]
    ELSE IF t # <<>> /\ t[1] = "[" THEN
        LET e == ParseElements(t, 2, <<>>) IN
        IF e.ok THEN [threw |-> FALSE, value |-> Arr(e.items)]
        ELSE [threw |-> TRUE, value |-> Undefined]
    ELSE [threw |-> TRUE, value |-> Undefined]

\* ------------------------------------------------------------ the program
Handles == {"h1", "h2"}
Keys == {"tutorial-notes", "draft"}
\* the defaults the callers pass as initialValue
Defaults == { Arr(<<>>), Arr(<<<<"a">>>>) }

\* what earlier sessions may have left under a key
PreexistingTexts == { <<>>, <<"{">>, <<"4", "2">> }

\* the stores a process may start with: empty, or one entry left behind
PreexistingStores ==
    { [k \in D |-> t] : D \in { {} } \cup { {k} : k \in Keys }, t \in PreexistingTexts }

VARIABLES
    localStorage,   \* window.localStorage: a function from the keys present to texts
    hasWindow,      \* typeof window !== 'undefined' in this process
    mounted,        \* mounted[h]: the component of handle h is mounted
    hookKey,        \* hookKey[h]: the key argument of the hook call
    initialValue,   \* initialValue[h]: the initialValue argument of the hook call
    state,          \* state[h]: React's state cell of useState
    storedValue,    \* storedValue[h]: the value bound by the last render
    pc,             \* "idle", or "write" inside setValue between lines 53 and 56
    last,           \* the operation running or last run
    ops,            \* the number of operations so far
    raised,         \* the last operation threw to its caller
    lastSet,        \* lastSet[k]: the last setValue of key k and whether it was written
    expected,       \* expected[h]: the calls through h applied in order to its initial value
    clean           \* clean[h]: "none" no call yet, "ok" every call wrote, "broken"

vars == <<localStorage, hasWindow, mounted, hookKey, initialValue, state,
          storedValue, pc, last, ops, raised, lastSet, expected, clean>>

\* ---- the arguments of setValue: a value, or a function of the previous value
Literal(v) == [isFn |-> FALSE, fn |-> "", val |-> v]
AppendNote(s) == [isFn |-> TRUE, fn |-> "append", val |-> Str(s)]
ClearNotes == [isFn |-> TRUE, fn |-> "clear", val |-> Null]
Throwing == [isFn |-> TRUE, fn |-> "throw", val |-> Null]

RECURSIVE CharsAsStrings(_)
CharsAsStrings(s) ==
    IF s = <<>> THEN <<>> ELSE <<<<Head(s)>>>> \o CharsAsStrings(Tail(s))

\* the call value(prev) of an updater: [threw, value]
CallUpdater(next, prev) ==
    CASE next.fn = "append" ->
             \* prev => [...prev, s]: spreads arrays and strings, throws on the rest
             IF prev.kind = "array"
             THEN [threw |-> FALSE, value |-> Arr(Append(prev.items, next.val.items[1]))]
             ELSE IF prev.kind = "string"
             THEN [threw |-> FALSE,
                   value |-> Arr(Append(CharsAsStrings(prev.items[1]), next.val.items[1]))]
             ELSE [threw |-> TRUE, value |-> Undefined]
      [] next.fn = "clear" -> [threw |-> FALSE, value |-> Arr(<<>>)]
      [] OTHER -> [threw |-> TRUE, value |-> Undefined]

\* line 50: value instanceof Function ? value(prev) : value
Resolve(next, prev) ==
    IF next.isFn THEN CallUpdater(next, prev)
    ELSE [threw |-> FALSE, value |-> next.val]

\* line 50 as written: prev is the storedValue of the render that made setValue
ValueToStore(h, next) == Resolve(next, storedValue[h])

\* ---- localStorage
GetItem(store, k) ==
    IF k \in DOMAIN store THEN [isNull |-> FALSE, text |-> store[k]]
    ELSE [isNull |-> TRUE, text |-> <<>>]

SetItem(store, k, t) ==
    [x \in (DOMAIN store) \cup {k} |-> IF x = k THEN t ELSE store[x]]

\* a string is truthy unless it is empty; null is falsy
Truthy(item) == ~item.isNull /\ item.text # <<>>

\* ---- the initializer of useState, lines 31-44
InitializerCatchNoReturn(d) == [value |-> Undefined, raised |-> FALSE]

\* lines 40-43: the catch block warns and returns initialValue
InitializerCatch(d) == [value |-> d, raised |-> FALSE]

ParseWithoutCheck(item, d) ==
    JSON_parse(IF item.isNull THEN <<"n", "u", "l", "l">> ELSE item.text)

\* line 39: item ? JSON.parse(item) : initialValue
ParseOrDefault(item, d) ==
    IF Truthy(item) THEN JSON_parse(item.text) ELSE [threw |-> FALSE, value |-> d]

\* lines 37-39: the try block; getThrows is getItem throwing
InitializerTry(store, k, d, getThrows) ==
    IF getThrows THEN [threw |-> TRUE, value |-> Undefined]
    ELSE ParseOrDefault(GetItem(store, k), d)

Initializer(store, win, k, d, getThrows) ==
    IF ~win THEN [value |-> d, raised |-> FALSE]
    ELSE LET t == InitializerTry(store, k, d, getThrows) IN
         IF t.threw THEN InitializerCatch(d)
         ELSE [value |-> t.value, raised |-> FALSE]

StoreAfterEagerPersist(store, win, k, d) ==
    IF win /\ k \notin DOMAIN store
    THEN SetItem(store, k, ToStorageString(JSON_stringify(d)))
    ELSE store

\* lines 31-44 make no setItem call
StoreAfterInitializer(store, win, k, d) == store

\* ---- setValue, lines 47-62
SetStoredValueDropped(st, h, v) == st

\* line 53: setStoredValue(valueToStore)
SetStoredValue(st, h, v) == [st EXCEPT ![h] = v]

RECURSIVE JoinPlain(_)
JoinPlain(xs) ==
    IF xs = <<>> THEN <<>>
    ELSE IF Len(xs) = 1 THEN xs[1]
    ELSE xs[1] \o <<",">> \o JoinPlain(Tail(xs))

SerializeToString(v) ==
    IF v.kind = "array"
    THEN [threw |-> FALSE, undef |-> FALSE, text |-> JoinPlain(v.items)]
    ELSE JSON_stringify(v)

\* line 57: JSON.stringify(valueToStore)
Serialize(v) == JSON_stringify(v)

SetValueCatchRethrows(threw) == threw

\* lines 59-61: the catch block warns and returns
SetValueCatch(threw) == FALSE

StateRolledBack(st, h) == [st EXCEPT ![h] = storedValue[h]]

\* lines 59-61 leave the state cell as line 53 set it
StateAfterCatch(st, h) == st

NoNext == Literal(Undefined)

Last(o, h, next, v, threw, failed) ==
    [op |-> o, h |-> h, next |-> next, valueToStore |-> v,
     threw |-> threw, failed |-> failed]

NoSet == [has |-> FALSE, v |-> Undefined]

\* ---- the theme provider of src/contexts/ThemeContext.tsx, declared here so
\* that every specification of this module fixes all the variables
VARIABLES
    variant,        \* which ThemeContext.tsx is built: "two" (light | dark) or "system"
    storageKey,     \* the storageKey prop of the provider ("theme" in the "two" variant)
    defaultTheme,   \* the defaultTheme prop of the provider
    themeStorage,   \* localStorage as the provider sees it: key -> string
    themeWindow,    \* typeof window !== 'undefined' where the provider renders
    providerMounted,\* the provider has rendered in this page
    theme,          \* the state cell of useState<Theme>
    themeRendered,  \* theme as the last render saw it: closures and context value
    actualTheme,    \* the state cell of useState<'light' | 'dark'> ("system" variant)
    actualRendered, \* actualTheme as the last render saw it
    effectTheme,    \* the theme dependency at the last run of the effects
    listening,      \* the 'change' listener of the media query is attached
    systemDark,     \* (prefers-color-scheme: dark) matches
    rootTheme,      \* the data-theme attribute of document.documentElement
    seen,           \* seen[c]: the theme useTheme() gave consumer c at its last render
    phase,          \* "settled", "dirty" (a render is due), "effects" (effects are due)
    syncWork,       \* the pending render comes from a click and is flushed in its task
    themeLast,      \* the last call on the provider's API
    themeRaised,    \* the last call threw to its caller
    toggles,        \* consecutive toggleTheme calls and the theme before the first
    lastTheme       \* the last setTheme and whether its write succeeded

themeVars == <<variant, storageKey, defaultTheme, themeStorage, themeWindow,
               providerMounted, theme, themeRendered, actualTheme, actualRendered,
               effectTheme, listening, systemDark, rootTheme, seen, phase, syncWork,
               themeLast, themeRaised, toggles, lastTheme>>

Consumers == {"c1", "c2"}

NoThemeCall == [op |-> "none", arg |-> "none", failed |-> FALSE]
NoToggles == [n |-> 0, before |-> "none"]
NoThemeSet == [has |-> FALSE, m |-> "none"]

\* a page before the provider renders
ProviderUnmounted ==
    /\ providerMounted = FALSE
    /\ theme = "none" /\ themeRendered = "none"
    /\ actualTheme = "none" /\ actualRendered = "none"
    /\ effectTheme = "none"
    /\ listening = FALSE
    /\ rootTheme = "none"
    /\ seen = [c \in Consumers |-> "none"]
    /\ phase = "settled" /\ syncWork = FALSE
    /\ themeLast = NoThemeCall /\ themeRaised = FALSE
    /\ toggles = NoToggles /\ lastTheme = NoThemeSet

\* a page of the hook alone
NoThemeProvider ==
    /\ variant = "two" /\ storageKey = "theme" /\ defaultTheme = "light"
    /\ themeStorage = <<>> /\ themeWindow = FALSE /\ systemDark = FALSE
    /\ ProviderUnmounted

\* ---- SubscriptionExample of src/components/UseEffectShowcase.tsx
VARIABLES
    isConnected,      \* the state cell of useState(false)
    connectedRendered,\* isConnected as the last render saw it
    connectionStatus, \* the state cell of useState('Disconnected')
    messages,         \* the state cell of useState<string[]>([])
    connectTimeout,   \* the timeout of the last effect run is pending
    messageIntervals, \* the number of intervals that are set and not cleared
    subPhase          \* "settled", or "dirty": a click's render and effect are due

subVars == <<isConnected, connectedRendered, connectionStatus, messages,
             connectTimeout, messageIntervals, subPhase>>

\* the component after its first render and effect
SubscriptionInit ==
    /\ isConnected = FALSE /\ connectedRendered = FALSE
    /\ connectionStatus = "Disconnected"
    /\ messages = <<>>
    /\ connectTimeout = FALSE
    /\ messageIntervals = 0
    /\ subPhase = "settled"

\* ---- the components of the showcase pages, declared here for the same reason
\* ---- UserProfile of src/components/Dashboard.tsx
VARIABLES
    profileMounted, \* the component is rendered and its mount effect has run
    user,           \* the state cell of useState<User | null>(null): "null" or "John Doe"
    loading,        \* the state cell of useState(true)
    error,          \* the state cell of useState<string | null>(null): "null" or the text
    randomNumber,   \* the state cell of useState<number | null>(null): <<>> for null, <<r>> for r tenths
    fetchTimers,    \* the number of pending setTimeout callbacks of fetchUser
    fetches         \* the number of fetchUser calls so far

profileVars == <<profileMounted, user, loading, error, randomNumber, fetchTimers,
                fetches>>

\* the cells as useState initialises them, before the mount effect
UserProfileInit ==
    /\ profileMounted = FALSE
    /\ user = "null" /\ loading = TRUE /\ error = "null"
    /\ randomNumber = <<>>
    /\ fetchTimers = 0
    /\ fetches = 0

\* ---- ContactForm of src/components/Dashboard.tsx
VARIABLES
    formData,          \* the state cell of useState({name, email, message})
    errors,            \* the fields that carry an error text in the errors cell
    submittedDataList, \* the state cell of useState<SubmittedFormData[]>([])
    isSubmitting,      \* the state cell of useState(false)
    nextId,            \* the state cell of useState(1)
    submitTimers       \* the pending setTimeout callbacks: what each closure captured

formVars == <<formData, errors, submittedDataList, isSubmitting, nextId, submitTimers>>

EmptyForm == [name |-> "", email |-> "", message |-> ""]

ContactFormInit ==
    /\ formData = EmptyForm
    /\ errors = {}
    /\ submittedDataList = <<>>
    /\ isSubmitting = FALSE
    /\ nextId = 1
    /\ submitTimers = <<>>

\* ---- TimersExample of src/components/UseEffectShowcase.tsx
VARIABLES
    countdown,      \* the state cell of useState(10)
    message,        \* the state cell of useState('')
    isRunning,      \* the state cell of useState(false)
    elapsedTime,    \* the state cell of useState(0)
    countdownDeps,  \* [countdown, message] at the last run of the first effect
    runningDep,     \* [isRunning] at the last run of the second effect
    timeoutId,      \* the timeout of the last run of the first effect: "none", "pending", "fired"
    timeouts,       \* the number of pending timeouts
    intervalIds,    \* the number of intervals that are set and not cleared
    timersClick,    \* a click is being handled: its render and effects are due
    resets          \* the number of clicks on reset so far

timersVars == <<countdown, message, isRunning, elapsedTime, countdownDeps, runningDep,
                timeoutId, timeouts, intervalIds, timersClick, resets>>

\* the dependencies of an effect that has not run yet
NotRun == <<>>

TimersExampleInit ==
    /\ countdown = 10 /\ message = ""
    /\ isRunning = FALSE /\ elapsedTime = 0
    /\ countdownDeps = NotRun /\ runningDep = NotRun
    /\ timeoutId = "none" /\ timeouts = 0
    /\ intervalIds = 0
    /\ timersClick = FALSE
    /\ resets = 0

\* ---- ResourceCleanupExample of src/components/UseEffectShowcase.tsx
VARIABLES
    isActive,       \* the state cell of useState(false)
    resourceCount,  \* the resourceCount on the page
    resourcesRef,   \* resourcesRef.current: the set of resource ids
    activeDep,      \* [isActive] at the last run of the effect
    hasCleanup,     \* the last run of the effect returned a cleanup
    resources,      \* the resources array that cleanup closes over
    workIntervals,  \* the number of work intervals set and not cleared
    now,            \* Date.now()
    worked          \* the number of 'Resources working...' log lines

resourceVars == <<isActive, resourceCount, resourcesRef, activeDep, hasCleanup,
                  resources, workIntervals, now, worked>>

ResourceCleanupInit ==
    /\ isActive = FALSE /\ resourceCount = 0
    /\ resourcesRef = {}
    /\ activeDep = NotRun
    /\ hasCleanup = FALSE /\ resources = {}
    /\ workIntervals = 0
    /\ now = 0
    /\ worked = 0

\* ---- DependencyArrayDemo of src/components/UseCallbackShowcase.tsx
VARIABLES
    count,               \* the state cell of useState(0)
    name,                \* the state cell of useState('John')
    logs,                \* the state cell of useState<string[]>([])
    handleBadCallback,   \* the count and name the memoized callback closes over
    handleGoodCallback,  \* the same for the callback with [count, name]
    goodDeps,            \* [count, name] at the render that made handleGoodCallback
    clicked              \* the last button clicked or input edited

depsVars == <<count, name, logs, handleBadCallback, handleGoodCallback, goodDeps, clicked>>

\* what a callback made in a render closes over
Closure(c, n) == [count |-> c, name |-> n]

DependencyArrayInit ==
    /\ count = 0 /\ name = "John" /\ logs = <<>>
    /\ handleBadCallback = Closure(0, "John")
    /\ handleGoodCallback = Closure(0, "John")
    /\ goodDeps = <<0, "John">>
    /\ clicked = "none"

\* ---- ApiCallExample of src/components/UseEffectShowcase.tsx
VARIABLES
    posts,         \* the state cell of useState<Post[]>([])
    postsLoading,  \* the state cell of useState(true), loading
    postsError,    \* the state cell of useState<string | null>(null), error: "null" or the text
    userId,        \* the state cell of useState(1)
    requests,      \* for each user id, the number of fetches not yet completed
    apiMounted,    \* the component is mounted and its first effect has run
    sent           \* the number of fetches started so far

apiVars == <<posts, postsLoading, postsError, userId, requests, apiMounted, sent>>

ApiCallInit ==
    /\ posts = <<>>
    /\ postsLoading = TRUE
    /\ postsError = "null"
    /\ userId = 1
    /\ requests = <<>>
    /\ apiMounted = FALSE
    /\ sent = 0

\* ---- every showcase component at once
demoVars == <<profileVars, formVars, timersVars, resourceVars, depsVars, apiVars>>

DemosInit ==
    /\ UserProfileInit
    /\ ContactFormInit
    /\ TimersExampleInit
    /\ ResourceCleanupInit
    /\ DependencyArrayInit
    /\ ApiCallInit

\* everything but the variables of UserProfile
exceptUserProfile == <<vars, themeVars, subVars, formVars, timersVars, resourceVars, depsVars, apiVars>>

\* everything but the variables of ContactForm
exceptContactForm == <<vars, themeVars, subVars, profileVars, timersVars, resourceVars, depsVars, apiVars>>

\* everything but the variables of TimersExample
exceptTimersExample == <<vars, themeVars, subVars, profileVars, formVars, resourceVars, depsVars, apiVars>>

\* everything but the variables of ResourceCleanupExample
exceptResourceCleanupExample == <<vars, themeVars, subVars, profileVars, formVars, timersVars, depsVars, apiVars>>

\* everything but the variables of DependencyArrayDemo
exceptDependencyArrayDemo == <<vars, themeVars, subVars, profileVars, formVars, timersVars, resourceVars, apiVars>>

\* everything but the variables of ApiCallExample
exceptApiCallExample == <<vars, themeVars, subVars, profileVars, formVars, timersVars, resourceVars, depsVars>>

Init ==
    /\ NoThemeProvider
    /\ SubscriptionInit
    /\ DemosInit
    /\ localStorage \in PreexistingStores
    /\ hasWindow \in BOOLEAN
    /\ mounted = [h \in Handles |-> FALSE]
    /\ hookKey = [h \in Handles |-> "tutorial-notes"]
    /\ initialValue = [h \in Handles |-> Undefined]
    /\ state = [h \in Handles |-> Undefined]
    /\ storedValue = [h \in Handles |-> Undefined]
    /\ pc = "idle"
    /\ last = Last("init", "h1", NoNext, Undefined, FALSE, FALSE)
    /\ ops = 0
    /\ raised = FALSE
    /\ lastSet = [k \in Keys |-> NoSet]
    /\ expected = [h \in Handles |-> Undefined]
    /\ clean = [h \in Handles |-> "none"]

\* useLocalStorage(k, d) at the mount of the component of handle h
Open(h, k, d, getThrows) ==
    /\ pc = "idle" /\ ops < MaxOps /\ ~mounted[h]
    \* the handles are interchangeable: the first one mounted is called h1
    /\ h = "h2" => mounted["h1"]
    /\ LET r == Initializer(localStorage, hasWindow, k, d, getThrows) IN
       /\ state' = [state EXCEPT ![h] = r.value]
       /\ storedValue' = [storedValue EXCEPT ![h] = r.value]
       /\ expected' = [expected EXCEPT ![h] = r.value]
       /\ raised' = r.raised
    /\ localStorage' = StoreAfterInitializer(localStorage, hasWindow, k, d)
    /\ mounted' = [mounted EXCEPT ![h] = TRUE]
    /\ hookKey' = [hookKey EXCEPT ![h] = k]
    /\ initialValue' = [initialValue EXCEPT ![h] = d]
    /\ clean' = [clean EXCEPT ![h] = "none"]
    /\ last' = Last("open", h, NoNext, Undefined, hasWindow /\ getThrows, FALSE)
    /\ ops' = ops + 1
    /\ UNCHANGED <<hasWindow, pc, lastSet>>
    /\ UNCHANGED <<themeVars, subVars, demoVars>>

\* the re-render React schedules after a state change
Render(h) ==
    /\ pc = "idle" /\ mounted[h] /\ storedValue[h] # state[h]
    /\ storedValue' = [storedValue EXCEPT ![h] = state[h]]
    /\ last' = Last("render", h, NoNext, Undefined, FALSE, FALSE)
    /\ raised' = FALSE
    /\ UNCHANGED <<localStorage, hasWindow, mounted, hookKey, initialValue,
                   state, pc, ops, lastSet, expected, clean>>
    /\ UNCHANGED <<themeVars, subVars, demoVars>>

\* setValue(next), lines 48-56: resolve, set the state, reach the write
SetValueCall(h, next) ==
    /\ pc = "idle" /\ ops < MaxOps /\ mounted[h]
    /\ LET r == ValueToStore(h, next)
           e == Resolve(next, expected[h])
       IN
       /\ (~r.threw /\ r.value.kind = "array") => Len(r.value.items) <= MaxNotes
       /\ IF r.threw
          THEN /\ state' = StateAfterCatch(state, h)
               /\ raised' = SetValueCatch(TRUE)
               /\ pc' = "idle"
               /\ last' = Last("setValue", h, next, Undefined, TRUE, FALSE)
               /\ expected' = [expected EXCEPT ![h] = IF e.threw THEN @ ELSE e.value]
               /\ clean' = [clean EXCEPT ![h] = "broken"]
               /\ UNCHANGED lastSet
          ELSE /\ state' = SetStoredValue(state, h, r.value)
               /\ raised' = FALSE
               /\ pc' = IF hasWindow THEN "write" ELSE "idle"
               /\ last' = Last("setValue", h, next, r.value, FALSE, FALSE)
               /\ expected' = [expected EXCEPT ![h] = IF e.threw THEN @ ELSE e.value]
               /\ lastSet' = IF hasWindow THEN lastSet
                             ELSE [lastSet EXCEPT ![hookKey[h]] = NoSet]
               /\ clean' = IF hasWindow THEN clean
                           ELSE [clean EXCEPT ![h] = "broken"]
    /\ ops' = ops + 1
    /\ UNCHANGED <<localStorage, hasWindow, mounted, hookKey, initialValue, storedValue>>
    /\ UNCHANGED <<themeVars, subVars, demoVars>>

\* setValue, lines 56-61: serialize and write; setThrows is setItem throwing
SetValueWrite(setThrows) ==
    /\ pc = "write"
    /\ LET h == last.h
           k == hookKey[h]
           s == Serialize(last.valueToStore)
           threw == s.threw \/ setThrows
       IN
       /\ localStorage' = IF threw THEN localStorage
                          ELSE SetItem(localStorage, k, ToStorageString(s))
       /\ state' = IF threw THEN StateAfterCatch(state, h) ELSE state
       /\ raised' = SetValueCatch(threw)
       /\ last' = [last EXCEPT !.failed = threw]
       /\ lastSet' = [lastSet EXCEPT ![k] =
                         IF threw THEN NoSet ELSE [has |-> TRUE, v |-> last.valueToStore]]
       /\ clean' = [g \in Handles |->
                       IF g = h THEN (IF threw \/ clean[h] = "broken" THEN "broken" ELSE "ok")
                       ELSE IF mounted[g] /\ hookKey[g] = k /\ ~threw THEN "broken"
                       ELSE clean[g]]
    /\ pc' = "idle"
    /\ UNCHANGED <<hasWindow, mounted, hookKey, initialValue, storedValue, ops, expected>>
    /\ UNCHANGED <<themeVars, subVars, demoVars>>

\* the page is reloaded, or rendered anew on the server: every component is gone
Reload(win) ==
    /\ pc = "idle"
    /\ \E h \in Handles : mounted[h]
    /\ hasWindow' = win
    /\ mounted' = [h \in Handles |-> FALSE]
    /\ hookKey' = [h \in Handles |-> "tutorial-notes"]
    /\ initialValue' = [h \in Handles |-> Undefined]
    /\ state' = [h \in Handles |-> Undefined]
    /\ storedValue' = [h \in Handles |-> Undefined]
    /\ expected' = [h \in Handles |-> Undefined]
    /\ clean' = [h \in Handles |-> "none"]
    /\ last' = Last("reload", "h1", NoNext, Undefined, FALSE, FALSE)
    /\ raised' = FALSE
    /\ UNCHANGED <<localStorage, pc, ops, lastSet>>
    /\ UNCHANGED <<themeVars, subVars, demoVars>>

\* what the callers pass to setValue: NotesWidget.addNote passes
\* [...notes, newNote.trim()] built from the notes of its render, clearNotes []
LiteralsOf(h) ==
    { Arr(<<>>), Null, Undefined, Circular }
    \cup { Arr(<<s>>) : s \in NoteTexts }
    \cup (IF storedValue[h].kind = "array"
          THEN { Arr(Append(storedValue[h].items, s)) : s \in NoteTexts }
          ELSE {})

Updaters == { AppendNote(s) : s \in NoteTexts } \cup { ClearNotes, Throwing }

Next ==
    \/ \E h \in Handles, k \in Keys, d \in Defaults, getThrows \in BOOLEAN :
          Open(h, k, d, getThrows)
    \/ \E h \in Handles : Render(h)
    \/ \E h \in Handles : \E v \in LiteralsOf(h) : SetValueCall(h, Literal(v))
    \/ \E h \in Handles : \E u \in Updaters : SetValueCall(h, u)
    \/ \E setThrows \in BOOLEAN : SetValueWrite(setThrows)
    \/ \E win \in BOOLEAN : Reload(win)

Spec == Init /\ [][Next]_vars

\* ------------------------------------------------------------- the claims
OpenStep == ops' = ops + 1 /\ last'.op = "open"
SetValueStep == ops' = ops + 1 /\ last'.op = "setValue"
WriteStep == pc = "write" /\ pc' = "idle"

\* the values JSON represents
Serializable(v) == v.kind \in {"array", "string", "number", "null"}

TextOf(v) == ToStorageString(JSON_stringify(v))

\* C1: in the browser, setValue(f) makes the slot's value f(v), v being the
\* value the state cell holds when the call is issued, also for a second call
\* made before the component has re-rendered.
C1_FunctionalUpdate ==
    [][(SetValueStep /\ hasWindow /\ last'.next.isFn
          /\ ~CallUpdater(last'.next, state[last'.h]).threw)
       => state'[last'.h] = CallUpdater(last'.next, state[last'.h]).value]_vars

\* C2: after a setValue(v) of a serializable v that was written, a handle
\* opened for the same key starts with v.
C2_RoundTrip ==
    [][(OpenStep /\ hasWindow /\ ~last'.threw
          /\ lastSet[hookKey'[last'.h]].has
          /\ Serializable(lastSet[hookKey'[last'.h]].v))
       => /\ state'[last'.h] = lastSet[hookKey'[last'.h]].v
          /\ storedValue'[last'.h] = lastSet[hookKey'[last'.h]].v]_vars

C2_Witness ==
    /\ last.op = "open" /\ hasWindow /\ ~last.threw
    /\ lastSet[hookKey[last.h]].has
    /\ state[last.h] = lastSet[hookKey[last.h]].v
    /\ state[last.h] = Arr(<< <<DQ, ",">> >>)
    /\ state[last.h] # initialValue[last.h]

\* C3: once every call through a handle has been written, the state cell and
\* the entry of localStorage both are the calls applied in the order issued.
C3_AppliedInOrder ==
    \A h \in Handles :
        (mounted[h] /\ pc = "idle" /\ clean[h] = "ok")
        => /\ state[h] = expected[h]
           /\ hookKey[h] \in DOMAIN localStorage
           /\ localStorage[hookKey[h]] = TextOf(expected[h])

\* C4: without an entry for the key, without a window, or with a getItem
\* that throws, the initial value is the default and nothing is raised.
C4_DefaultWhenNoEntry ==
    [][(OpenStep /\ (~hasWindow \/ last'.threw
                      \/ hookKey'[last'.h] \notin DOMAIN localStorage))
       => /\ state'[last'.h] = initialValue'[last'.h]
          /\ storedValue'[last'.h] = initialValue'[last'.h]
          /\ ~raised']_vars

C4_Witness ==
    /\ last.op = "open" /\ hasWindow /\ ~last.threw
    /\ hookKey[last.h] \notin DOMAIN localStorage
    /\ DOMAIN localStorage # {}
    /\ initialValue[last.h] = Arr(<<<<"a">>>>)
    /\ state[last.h] = initialValue[last.h]

ParsesAs(t, kind) == ~JSON_parse(t).threw /\ JSON_parse(t).value.kind = kind

\* C5 as claimed: an entry that does not parse as a value of the slot's
\* type (the type of the default) makes the initial value the default.
C5_UnparsableAsType ==
    [][(OpenStep /\ hasWindow /\ ~last'.threw
          /\ hookKey'[last'.h] \in DOMAIN localStorage
          /\ ~ParsesAs(localStorage[hookKey'[last'.h]], initialValue'[last'.h].kind))
       => /\ state'[last'.h] = initialValue'[last'.h]
          /\ ~raised']_vars

\* C5 as amended: an entry that is not valid JSON makes the initial value
\* the default, without raising; an entry that is valid JSON is the initial
\* value as parsed, whatever its type.
C5_InvalidJsonFallsBack ==
    [][(OpenStep /\ hasWindow /\ ~last'.threw
          /\ hookKey'[last'.h] \in DOMAIN localStorage)
       => LET p == JSON_parse(localStorage[hookKey'[last'.h]]) IN
          /\ p.threw => (state'[last'.h] = initialValue'[last'.h] /\ ~raised')
          /\ ~p.threw => state'[last'.h] = p.value]_vars

C5_Witness ==
    /\ last.op = "open" /\ hasWindow /\ ~last.threw
    /\ hookKey[last.h] \in DOMAIN localStorage
    /\ localStorage[hookKey[last.h]] = <<"{">>
    /\ state[last.h] = initialValue[last.h]
    /\ ~raised

\* C6: neither the hook call nor setValue raises to its caller, whatever
\* getItem, setItem, JSON.stringify, JSON.parse or the updater throw.
C6_NeverRaises == ~raised

C6_Witness ==
    /\ last.op = "setValue" /\ pc = "idle" /\ last.failed
    /\ Serializable(last.valueToStore)
    /\ ~raised

\* C7: a setValue whose serialization or write throws leaves the state cell
\* at the resolved value and the entries of localStorage as they were.
C7_NoRollback ==
    [][(WriteStep /\ last'.failed)
       => /\ state'[last.h] = last.valueToStore
          /\ (~last.next.isFn => state'[last.h] = last.next.val)
          /\ localStorage' = localStorage]_vars

C7_Witness ==
    /\ last.op = "setValue" /\ pc = "idle" /\ last.failed
    /\ last.valueToStore.kind = "array" /\ last.valueToStore.items # <<>>
    /\ state[last.h] = last.valueToStore
    /\ hookKey[last.h] \in DOMAIN localStorage
    /\ localStorage[hookKey[last.h]] # TextOf(last.valueToStore)

C9_SingletonPerKey ==
    \A h \in Handles, g \in Handles :
        (mounted[h] /\ mounted[g] /\ hookKey[h] = hookKey[g] /\ pc = "idle"
           /\ hasWindow /\ last.op = "setValue" /\ last.h = h /\ ~last.threw /\ ~last.failed)
        => state[h] = state[g]

\* C10: the hook call at mount leaves every entry of localStorage as it was.
C10_OpenWritesNothing ==
    [][OpenStep => localStorage' = localStorage]_vars

C10_Witness ==
    /\ last.op = "open" /\ hasWindow /\ ~last.threw
    /\ state[last.h] = initialValue[last.h]
    /\ \/ hookKey[last.h] \notin DOMAIN localStorage
       \/ localStorage[hookKey[last.h]] = <<"{">>
    /\ localStorage \in PreexistingStores

\* =========================================================================
\* The theme provider: src/contexts/ThemeContext.tsx, in its two variants
\* =========================================================================

\* the Theme type of each variant
Themes(v) == IF v = "two" THEN {"light", "dark"} ELSE {"light", "dark", "system"}

\* what a caller that bypasses the type checker can pass besides
UntypedThemes == {"blue"}

StorageKeys == {"theme", "app-theme"}

\* what an earlier session may have left under the key 'theme'
PreexistingThemeStores ==
    { <<>> } \cup { [k \in {"theme"} |-> t] : t \in {"light", "dark", "system", "blue"} }

ThemeGetItem(store, k) ==
    IF k \in DOMAIN store THEN [isNull |-> FALSE, text |-> store[k]]
    ELSE [isNull |-> TRUE, text |-> ""]

ThemeSetItem(store, k, t) ==
    [x \in (DOMAIN store) \cup {k} |-> IF x = k THEN t ELSE store[x]]

\* what getStoredTheme returns without a window, without a valid entry, on a throw
FallbackTheme(v) == IF v = "two" THEN "light" ELSE "system"

GetStoredThemeUnchecked(v, store, win, getThrows) ==
    IF ~win THEN FallbackTheme(v)
    ELSE IF getThrows THEN FallbackTheme(v)
    ELSE LET stored == ThemeGetItem(store, "theme") IN
         IF ~stored.isNull /\ stored.text # "" THEN stored.text ELSE FallbackTheme(v)

\* getStoredTheme(): reads the key 'theme' whatever the storageKey prop is
GetStoredTheme(v, store, win, getThrows) ==
    IF ~win THEN FallbackTheme(v)
    ELSE IF getThrows THEN FallbackTheme(v)
    ELSE LET stored == ThemeGetItem(store, "theme") IN
         IF ~stored.isNull /\ stored.text # "" /\ stored.text \in Themes(v)
         THEN stored.text
         ELSE FallbackTheme(v)

\* the initializer of the theme state: stored || defaultTheme
InitialTheme(v, store, win, d, getThrows) ==
    LET stored == GetStoredTheme(v, store, win, getThrows) IN
    IF stored # "" THEN stored ELSE d

\* getSystemTheme()
GetSystemTheme(win, dark) ==
    IF ~win THEN "light" ELSE IF dark THEN "dark" ELSE "light"

\* resolveTheme(theme)
ResolveTheme(th, win, dark) ==
    IF th = "system" THEN GetSystemTheme(win, dark) ELSE th

\* the value of ThemeContext: undefined outside a provider
NoContext == [provided |-> FALSE, theme |-> "none"]
ContextValue(th) == [provided |-> TRUE, theme |-> th]

UseThemeDefaulted(context) ==
    IF ~context.provided THEN [threw |-> FALSE, theme |-> "light"]
    ELSE [threw |-> FALSE, theme |-> context.theme]

\* useTheme(): throws when the context is undefined
UseTheme(context) ==
    IF ~context.provided THEN [threw |-> TRUE, theme |-> "none"]
    ELSE [threw |-> FALSE, theme |-> context.theme]

\* the key setTheme writes
WriteKey(v, k) == IF v = "two" THEN "theme" ELSE k

SetThemeCatchRethrows(threw) == threw

\* the catch block of setTheme warns and returns
SetThemeCatch(threw) == FALSE

\* toggleTheme(): the argument it passes to setTheme, from the values of its render
ToggleTarget(v, th, act) ==
    IF v = "two" THEN (IF th = "light" THEN "dark" ELSE "light")
    ELSE (IF act = "light" THEN "dark" ELSE "light")

SystemThemeEffectNoGuard(v, th, was, depChanged) ==
    IF v = "two" THEN FALSE ELSE IF depChanged THEN TRUE ELSE was

\* the effect that listens to the media query: its cleanup removes the listener,
\* its body returns early unless theme is 'system'
SystemThemeEffect(v, th, was, depChanged) ==
    IF v = "two" THEN FALSE
    ELSE IF depChanged THEN th = "system" ELSE was

\* handleChange(e): setActualTheme(e.matches ? 'dark' : 'light')
HandleSystemThemeChange(matches) == IF matches THEN "dark" ELSE "light"

\* the effect setActualTheme(resolveTheme(theme))
ResolveEffect(v, th, act, depChanged, win, dark) ==
    IF v = "two" THEN act
    ELSE IF depChanged THEN ResolveTheme(th, win, dark) ELSE act

DomThemeOfSetting(v, th, act) == th

\* the effect that sets data-theme and the root class: theme in the "two"
\* variant, actualTheme in the "system" variant
DomTheme(v, th, act) == IF v = "two" THEN th ELSE act

\* a page without the hook
NoHook ==
    /\ localStorage = <<>> /\ hasWindow = FALSE
    /\ mounted = [h \in Handles |-> FALSE]
    /\ hookKey = [h \in Handles |-> "tutorial-notes"]
    /\ initialValue = [h \in Handles |-> Undefined]
    /\ state = [h \in Handles |-> Undefined]
    /\ storedValue = [h \in Handles |-> Undefined]
    /\ pc = "idle"
    /\ last = Last("init", "h1", NoNext, Undefined, FALSE, FALSE)
    /\ ops = 0 /\ raised = FALSE
    /\ lastSet = [k \in Keys |-> NoSet]
    /\ expected = [h \in Handles |-> Undefined]
    /\ clean = [h \in Handles |-> "none"]

ThemeInit ==
    /\ NoHook
    /\ SubscriptionInit
    /\ DemosInit
    /\ variant \in {"two", "system"}
    /\ storageKey \in (IF variant = "two" THEN {"theme"} ELSE StorageKeys)
    /\ defaultTheme \in Themes(variant)
    /\ themeStorage \in PreexistingThemeStores
    /\ themeWindow \in BOOLEAN
    /\ systemDark \in BOOLEAN
    /\ ProviderUnmounted

\* a render is due when a state cell differs from what the last render saw
RenderDue(th, act) == th # themeRendered \/ act # actualRendered

\* the first render of <ThemeProvider>: the two useState initializers, and the
\* consumers below it read the context
MountProvider(getThrows) ==
    /\ ~providerMounted
    /\ LET t == InitialTheme(variant, themeStorage, themeWindow, defaultTheme, getThrows)
           a == IF variant = "two" THEN "none"
                ELSE ResolveTheme(t, themeWindow, systemDark)
       IN
       /\ theme' = t /\ themeRendered' = t
       /\ actualTheme' = a /\ actualRendered' = a
       /\ seen' = [c \in Consumers |-> UseTheme(ContextValue(t)).theme]
       /\ themeLast' = [op |-> "mount", arg |-> t, failed |-> themeWindow /\ getThrows]
    /\ providerMounted' = TRUE
    \* the effects run in the browser only
    /\ phase' = IF themeWindow THEN "effects" ELSE "settled"
    /\ syncWork' = FALSE
    /\ themeRaised' = FALSE
    /\ toggles' = NoToggles
    /\ UNCHANGED <<variant, storageKey, defaultTheme, themeStorage, themeWindow,
                   effectTheme, listening, systemDark, rootTheme, lastTheme>>
    /\ UNCHANGED <<vars, subVars, demoVars>>

\* setTheme(m) of the last render: setThemeState, then the guarded write.
\* Its callers are click handlers (Dashboard.tsx, onClick={toggleTheme}), so
\* the render and the effects it causes are flushed before any other event.
SetThemeCall(m, setThrows, op) ==
    /\ providerMounted /\ themeWindow /\ phase \in {"settled", "dirty"}
    /\ theme' = m
    /\ themeStorage' = IF setThrows THEN themeStorage
                       ELSE ThemeSetItem(themeStorage, WriteKey(variant, storageKey), m)
    /\ themeRaised' = SetThemeCatch(setThrows)
    /\ themeLast' = [op |-> op, arg |-> m, failed |-> setThrows]
    /\ lastTheme' = IF setThrows THEN NoThemeSet ELSE [has |-> TRUE, m |-> m]
    /\ toggles' = IF op # "toggleTheme" THEN NoToggles
                  ELSE IF toggles.n = 1 THEN [toggles EXCEPT !.n = 2]
                  ELSE [n |-> 1, before |-> theme]
    /\ phase' = IF RenderDue(m, actualTheme) THEN "dirty" ELSE "settled"
    /\ syncWork' = RenderDue(m, actualTheme)
    /\ UNCHANGED <<variant, storageKey, defaultTheme, themeWindow, providerMounted,
                   themeRendered, actualTheme, actualRendered, effectTheme,
                   listening, systemDark, rootTheme, seen>>
    /\ UNCHANGED <<vars, subVars, demoVars>>

SetTheme(m, setThrows) == SetThemeCall(m, setThrows, "setTheme")

ToggleTheme(setThrows) ==
    SetThemeCall(ToggleTarget(variant, themeRendered, actualRendered), setThrows,
                 "toggleTheme")

\* the re-render: the provider and every consumer see the state cells
Commit ==
    /\ providerMounted /\ phase = "dirty"
    /\ themeRendered' = theme
    /\ actualRendered' = actualTheme
    /\ seen' = [c \in Consumers |-> UseTheme(ContextValue(theme)).theme]
    /\ phase' = "effects"
    /\ UNCHANGED <<variant, storageKey, defaultTheme, themeStorage, themeWindow,
                   providerMounted, theme, actualTheme, effectTheme, listening,
                   systemDark, rootTheme, syncWork, themeLast, themeRaised, toggles,
                   lastTheme>>
    /\ UNCHANGED <<vars, subVars, demoVars>>

\* the effects of the last render, in the order of the source
Effects ==
    /\ providerMounted /\ phase = "effects"
    /\ LET depChanged == effectTheme # themeRendered
           a == ResolveEffect(variant, themeRendered, actualTheme, depChanged,
                              themeWindow, systemDark)
       IN
       /\ listening' = SystemThemeEffect(variant, themeRendered, listening, depChanged)
       /\ actualTheme' = a
       /\ rootTheme' = DomTheme(variant, themeRendered, actualRendered)
       /\ phase' = IF RenderDue(theme, a) THEN "dirty" ELSE "settled"
    /\ effectTheme' = themeRendered
    /\ syncWork' = FALSE
    /\ UNCHANGED <<variant, storageKey, defaultTheme, themeStorage, themeWindow,
                   providerMounted, theme, themeRendered, actualRendered, systemDark,
                   seen, themeLast, themeRaised, toggles, lastTheme>>
    /\ UNCHANGED <<vars, subVars, demoVars>>

\* the system colour scheme changes; the listener, if attached, is called
SystemChange ==
    /\ themeWindow /\ variant = "system" /\ ~syncWork
    /\ systemDark' = ~systemDark
    /\ themeLast' = [op |-> "systemChange", arg |-> GetSystemTheme(TRUE, ~systemDark),
                     failed |-> FALSE]
    /\ actualTheme' = IF listening THEN HandleSystemThemeChange(~systemDark) ELSE actualTheme
    /\ phase' = IF phase = "effects" THEN "effects"
                ELSE IF RenderDue(theme, actualTheme') THEN "dirty" ELSE "settled"
    /\ UNCHANGED <<variant, storageKey, defaultTheme, themeStorage, themeWindow,
                   providerMounted, theme, themeRendered, actualRendered, effectTheme,
                   listening, rootTheme, seen, syncWork, themeRaised, toggles,
                   lastTheme>>
    /\ UNCHANGED <<vars, subVars, demoVars>>

\* a component that is not below a provider renders and calls useTheme()
UseThemeOutside ==
    /\ LET r == UseTheme(NoContext) IN
       /\ themeRaised' = r.threw
       /\ themeLast' = [op |-> "useTheme", arg |-> r.theme, failed |-> FALSE]
    /\ UNCHANGED <<variant, storageKey, defaultTheme, themeStorage, themeWindow,
                   providerMounted, theme, themeRendered, actualTheme, actualRendered,
                   effectTheme, listening, systemDark, rootTheme, seen, phase,
                   syncWork, toggles, lastTheme>>
    /\ UNCHANGED <<vars, subVars, demoVars>>

\* the page is reloaded, or rendered anew on the server
ThemeReload(win) ==
    /\ providerMounted
    /\ themeWindow' = win
    /\ providerMounted' = FALSE
    /\ theme' = "none" /\ themeRendered' = "none"
    /\ actualTheme' = "none" /\ actualRendered' = "none"
    /\ effectTheme' = "none"
    /\ listening' = FALSE
    /\ rootTheme' = "none"
    /\ seen' = [c \in Consumers |-> "none"]
    /\ phase' = "settled" /\ syncWork' = FALSE
    /\ themeLast' = [op |-> "reload", arg |-> "none", failed |-> FALSE]
    /\ themeRaised' = FALSE
    /\ toggles' = NoToggles
    /\ UNCHANGED <<variant, storageKey, defaultTheme, themeStorage, systemDark,
                   lastTheme>>
    /\ UNCHANGED <<vars, subVars, demoVars>>

ThemeNext ==
    \/ \E getThrows \in BOOLEAN : MountProvider(getThrows)
    \/ \E m \in Themes(variant), setThrows \in BOOLEAN : SetTheme(m, setThrows)
    \/ \E setThrows \in BOOLEAN : ToggleTheme(setThrows)
    \/ Commit
    \/ Effects
    \/ SystemChange
    \/ UseThemeOutside
    \/ \E win \in BOOLEAN : ThemeReload(win)

allVars == <<vars, themeVars, subVars, demoVars>>

\* the provider with callers that respect the Theme type
SpecTheme == ThemeInit /\ [][ThemeNext]_allVars

\* the provider with callers that pass any string
ThemeNextUntyped ==
    \/ ThemeNext
    \/ \E m \in UntypedThemes, setThrows \in BOOLEAN : SetTheme(m, setThrows)

SpecThemeUntyped == ThemeInit /\ [][ThemeNextUntyped]_allVars

\* ----------------------------------------------- the claims on the provider
MountStep == ~providerMounted /\ providerMounted'
\* a step of setTheme (toggleTheme included when op is "toggleTheme")
SetThemeStep ==
    /\ providerMounted /\ providerMounted' /\ phase # "effects"
    /\ themeLast'.op \in {"setTheme", "toggleTheme"}
    /\ UNCHANGED <<themeRendered, actualRendered, systemDark>>
ThemeSettled == providerMounted /\ themeWindow /\ phase = "settled"

\* the entry under 'theme' when it is a member of the Theme type
ValidStored(v, store) ==
    LET stored == ThemeGetItem(store, "theme") IN
    ~stored.isNull /\ stored.text \in Themes(v)

\* C11: the provider initialises the theme to the persisted theme when
\* localStorage holds a valid one, and to the defaultTheme prop otherwise,
\* for every value of defaultTheme.
C11_PersistedThenDefault ==
    [][(MountStep /\ themeWindow /\ ~themeLast'.failed)
         => theme' = IF ValidStored(variant, themeStorage)
                     THEN themeStorage["theme"]
                     ELSE defaultTheme]_allVars

ThemeCalled == themeLast.op \in {"setTheme", "toggleTheme"}

\* C12 as stated: after setTheme(m), for every member m of the enumeration,
\* every consumer's useTheme().theme equals m and the document-level
\* presentation attribute equals m.
C12_AttributeIsSetting ==
    (ThemeSettled /\ ThemeCalled /\ themeLast.arg \in Themes(variant))
        => /\ \A c \in Consumers : seen[c] = themeLast.arg
           /\ rootTheme = themeLast.arg

\* C12 amended: once setTheme(m) is rendered and its effects have run, every
\* consumer's useTheme().theme equals m, and the presentation attribute
\* equals m in the two-valued variant and the resolution of m (actualTheme)
\* in the system variant; no two consumers ever observe different themes.
C12_AttributeIsApplied ==
    /\ (ThemeSettled /\ ThemeCalled /\ themeLast.arg \in Themes(variant))
          => /\ \A c \in Consumers : seen[c] = themeLast.arg
             /\ rootTheme = IF variant = "two" THEN themeLast.arg
                            ELSE ResolveTheme(themeLast.arg, themeWindow, systemDark)
    /\ \A c, d \in Consumers : seen[c] = seen[d]

C12_Witness ==
    /\ ThemeSettled /\ variant = "system"
    /\ themeLast.op = "setTheme" /\ themeLast.arg = "system"
    /\ systemDark /\ rootTheme = "dark"
    /\ \A c \in Consumers : seen[c] = "system"

\* C13: calling toggleTheme twice in a row returns the theme setting to the
\* value it had before the first call, from every reachable state of the
\* provider.
C13_ToggleTwiceRestores == toggles.n = 2 => theme = toggles.before

\* C14: useTheme called with no enclosing provider throws in every case and
\* never returns a defaulted theme.
C14_OutsideProviderThrows ==
    themeLast.op = "useTheme" => (themeRaised /\ themeLast.arg = "none")

C14_Witness ==
    themeLast.op = "useTheme" /\ themeRaised /\ providerMounted /\ theme = "dark"

\* C15: setTheme rejects a value outside the theme enumeration with a
\* caller-visible failure before any state changes: the shared theme, the
\* persisted entry and the presentation attribute stay as they were.
C15_InvalidThemeRejected ==
    [][(SetThemeStep /\ themeLast'.arg \notin Themes(variant))
         => /\ themeRaised'
            /\ theme' = theme
            /\ themeStorage' = themeStorage
            /\ rootTheme' = rootTheme]_allVars

\* C16: after setTheme(m) with localStorage available, a freshly mounted
\* provider initialises its theme to m, for every valid m and every
\* storageKey the provider was configured with.
C16_SurvivesReload ==
    [][(MountStep /\ themeWindow /\ ~themeLast'.failed
          /\ lastTheme.has /\ lastTheme.m \in Themes(variant))
         => theme' = lastTheme.m]_allVars

\* C17: in every reachable state, from initialisation on, the theme exposed
\* to consumers is a concrete member of the theme enumeration (and the
\* applied theme of the system variant is 'light' or 'dark'): never a
\* loading, unset or unresolved value.
C17_ThemeIsMember ==
    providerMounted
        => /\ theme \in Themes(variant)
           /\ \A c \in Consumers : seen[c] \in Themes(variant)
           /\ variant = "system"
                 => (actualTheme \in {"light", "dark"}
                     /\ actualRendered \in {"light", "dark"})

C17_Witness ==
    /\ providerMounted /\ themeWindow /\ phase = "effects" /\ effectTheme = "none"
    /\ "theme" \in DOMAIN themeStorage /\ themeStorage["theme"] = "blue"
    /\ \A c \in Consumers : seen[c] = FallbackTheme(variant)

\* C18: when the localStorage write of setTheme throws, or the store is
\* unavailable, setTheme does not raise and the in-memory theme still
\* changes to the requested value.
C18_WriteFailureSwallowed ==
    [][(SetThemeStep /\ themeLast'.failed)
         => /\ ~themeRaised'
            /\ theme' = themeLast'.arg
            /\ themeStorage' = themeStorage]_allVars

C18_Witness ==
    /\ ThemeSettled /\ themeLast.op = "setTheme" /\ themeLast.failed
    /\ ~themeRaised /\ themeStorage = <<>>
    /\ theme = "dark" /\ rootTheme = "dark"
    /\ \A c \in Consumers : seen[c] = "dark"

SystemChangeStep == systemDark' # systemDark

\* C19: in the three-valued provider, while theme is 'system' (and the
\* effects of the first render have run) actualTheme follows every system
\* colour-scheme change; while theme is 'light' or 'dark' a system
\* colour-scheme change never alters actualTheme; and at every settled state
\* actualTheme equals the resolution of theme and is what the DOM shows.
C19_SystemFollowedUnlessOverridden ==
    /\ [][(SystemChangeStep /\ providerMounted /\ theme = "system"
             /\ effectTheme # "none")
            => actualTheme' = GetSystemTheme(themeWindow, systemDark')]_allVars
    /\ [][(SystemChangeStep /\ providerMounted /\ theme \in {"light", "dark"})
            => actualTheme' = actualTheme]_allVars
    /\ []((ThemeSettled /\ variant = "system")
            => /\ actualTheme = ResolveTheme(theme, themeWindow, systemDark)
               /\ actualRendered = actualTheme
               /\ rootTheme = actualTheme)

C19_Witness ==
    /\ ThemeSettled /\ variant = "system"
    /\ themeLast.op = "systemChange" /\ themeLast.arg = "dark" /\ systemDark
    /\ lastTheme = [has |-> TRUE, m |-> "light"]
    /\ theme = "light" /\ actualTheme = "light" /\ rootTheme = "light"

\* =========================================================================
\* SubscriptionExample: src/components/UseEffectShowcase.tsx, lines 443-499
\* =========================================================================
MaxIntervals == 2

\* randomMessages: the texts a tick draws from (two of the eight)
RandomMessages == {"email", "chat"}

\* .slice(-5): the last five
KeepLast == 5

Slice(xs) ==
    IF Len(xs) <= KeepLast THEN xs
    ELSE SubSeq(xs, Len(xs) - KeepLast + 1, Len(xs))

\* toggleConnection(): setIsConnected(!isConnected) with the value of its render
ToggleConnection ==
    /\ subPhase = "settled"
    /\ isConnected' = ~connectedRendered
    /\ subPhase' = "dirty"
    /\ UNCHANGED <<connectedRendered, connectionStatus, messages, connectTimeout,
                   messageIntervals>>
    /\ UNCHANGED <<vars, themeVars, demoVars>>

\* what the cleanup returned by the effect clears: clearTimeout(connectTimeout)
TimeoutAfterCleanup(pending) == FALSE

\* what the cleanup returned by the effect leaves of the intervals: the
\* function returned inside the setTimeout callback is dropped by setTimeout,
\* so clearInterval(messageInterval) never runs
IntervalsAfterCleanup(n) == n

\* the re-render after the click, the cleanup of the previous effect when it
\* returned one (isConnected was true), then the effect
RunEffect ==
    /\ subPhase = "dirty"
    /\ connectedRendered' = isConnected
    /\ LET t == IF connectedRendered THEN TimeoutAfterCleanup(connectTimeout)
                ELSE connectTimeout
           n == IF connectedRendered THEN IntervalsAfterCleanup(messageIntervals)
                ELSE messageIntervals
       IN
       IF isConnected
       THEN /\ connectionStatus' = "Connecting..."
            /\ connectTimeout' = TRUE
            /\ messageIntervals' = n
            /\ UNCHANGED messages
       ELSE /\ connectionStatus' = "Disconnected"
            /\ messages' = <<>>
            /\ connectTimeout' = t
            /\ messageIntervals' = n
    /\ subPhase' = "settled"
    /\ UNCHANGED isConnected
    /\ UNCHANGED <<vars, themeVars, demoVars>>

\* the callback of setTimeout(..., 1000)
ConnectTimeoutFires ==
    /\ subPhase = "settled" /\ connectTimeout
    /\ messageIntervals < MaxIntervals
    /\ connectTimeout' = FALSE
    /\ connectionStatus' = "Connected"
    /\ messageIntervals' = messageIntervals + 1
    /\ UNCHANGED <<isConnected, connectedRendered, messages, subPhase>>
    /\ UNCHANGED <<vars, themeVars, demoVars>>

\* the callback of setInterval(..., 3000) of one of the intervals
MessageIntervalTick(randomMessage) ==
    /\ subPhase = "settled" /\ messageIntervals > 0
    /\ messages' = Slice(Append(messages, randomMessage))
    /\ UNCHANGED <<isConnected, connectedRendered, connectionStatus, connectTimeout,
                   messageIntervals, subPhase>>
    /\ UNCHANGED <<vars, themeVars, demoVars>>

SubscriptionStart == NoHook /\ NoThemeProvider /\ SubscriptionInit /\ DemosInit

SubscriptionNext ==
    \/ ToggleConnection
    \/ RunEffect
    \/ ConnectTimeoutFires
    \/ \E randomMessage \in RandomMessages : MessageIntervalTick(randomMessage)

SpecSubscription == SubscriptionStart /\ [][SubscriptionNext]_allVars

\* C20: once the user has disconnected (isConnected is false and the effect
\* cleanup has run) no timer or interval created by the connection remains
\* active, so no message is appended until the next connect; this holds also
\* when the connection had been established before the disconnect.
C20_DisconnectStopsMessages ==
    (~isConnected /\ subPhase = "settled")
        => (~connectTimeout /\ messageIntervals = 0)

\* =========================================================================
\* UserProfile: src/components/Dashboard.tsx
\* =========================================================================

MaxFetches == 4

\* Math.random() in tenths
Randoms == 0 .. 9

\* random > 0.7, in tenths
FailureThreshold == 7

\* how often React runs a mount effect: once, and twice in a development
\* build, where Next.js renders the app in StrictMode
EffectRuns == {1, 2}

JohnDoe == "John Doe"
FailedToLoad == "Failed to load user data"

\* the four conditions of the JSX
ShowsLoading == loading
ShowsError == error # "null"
ShowsPleaseLogIn == ~loading /\ error = "null" /\ user = "null"
ShowsUser == user # "null"

ViewsShown ==
    (IF ShowsLoading THEN {"loading"} ELSE {})
    \cup (IF ShowsError THEN {"error"} ELSE {})
    \cup (IF ShowsPleaseLogIn THEN {"please-log-in"} ELSE {})
    \cup (IF ShowsUser THEN {"user"} ELSE {})

\* fetchUser(), up to the setTimeout call: the four resets and one more timer
FetchUserStart(n) ==
    /\ loading' = TRUE
    /\ error' = "null"
    /\ user' = "null"
    /\ randomNumber' = <<>>
    /\ fetchTimers' = fetchTimers + n
    /\ fetches' = fetches + n

\* the first render and useEffect(() => { fetchUser(); }, [])
MountUserProfile(runs) ==
    /\ ~profileMounted
    /\ profileMounted' = TRUE
    /\ FetchUserStart(runs)
    /\ UNCHANGED exceptUserProfile

\* a click on 'Try Again' (in the error view) or 'Reload User' (in the user view)
FetchUser ==
    /\ profileMounted
    /\ ShowsError \/ ShowsUser
    /\ fetches < MaxFetches
    /\ FetchUserStart(1)
    /\ UNCHANGED profileMounted
    /\ UNCHANGED exceptUserProfile

\* the callback of setTimeout(..., 2000); its updates are rendered together
FetchUserTimeout(random) ==
    /\ profileMounted /\ fetchTimers > 0
    /\ fetchTimers' = fetchTimers - 1
    /\ randomNumber' = <<random>>
    /\ IF random > FailureThreshold
       THEN error' = FailedToLoad /\ UNCHANGED user
       ELSE user' = JohnDoe /\ UNCHANGED error
    /\ loading' = FALSE
    /\ UNCHANGED <<profileMounted, fetches>>
    /\ UNCHANGED exceptUserProfile

Idle == NoHook /\ NoThemeProvider /\ SubscriptionInit /\ DemosInit

UserProfileNext ==
    \/ \E runs \in EffectRuns : MountUserProfile(runs)
    \/ FetchUser
    \/ \E random \in Randoms : FetchUserTimeout(random)

SpecUserProfile == Idle /\ [][UserProfileNext]_allVars

\* C21: in every reachable state exactly one of the four views (loading,
\* error, please-log-in, user loaded) is rendered; loading, error and user
\* are never displayed together.
C21_ExactlyOneView == Cardinality(ViewsShown) = 1

\* =========================================================================
\* ContactForm: src/components/Dashboard.tsx
\* =========================================================================
MaxSubmissions == 3

Fields == {"name", "email", "message"}

\* what the user types into a field
FieldTexts == {"", "a@b"}

\* the validation of handleSubmit: the fields that get an error
NewErrors(data) ==
    (IF data.name = "" THEN {"name"} ELSE {})
    \cup (IF data.email # "a@b" THEN {"email"} ELSE {})
    \cup (IF data.message = "" THEN {"message"} ELSE {})

CanSubmitAlways == TRUE

\* the submit button and the inputs carry disabled={isSubmitting}
CanSubmit == ~isSubmitting

\* handleChange(e): the field is set and its error, if any, is cleared
HandleChange(field, value) ==
    /\ CanSubmit
    /\ formData' = [formData EXCEPT ![field] = value]
    /\ errors' = errors \ {field}
    /\ UNCHANGED <<submittedDataList, isSubmitting, nextId, submitTimers>>
    /\ UNCHANGED exceptContactForm

\* handleSubmit(e): validation, then the timer whose closure holds the
\* formData and the nextId of the render
HandleSubmit ==
    /\ CanSubmit
    /\ nextId + Len(submitTimers) <= MaxSubmissions
    /\ IF NewErrors(formData) # {}
       THEN /\ errors' = NewErrors(formData)
            /\ UNCHANGED <<isSubmitting, submitTimers>>
       ELSE /\ isSubmitting' = TRUE
            /\ submitTimers' = Append(submitTimers, [id |-> nextId, data |-> formData])
            /\ UNCHANGED errors
    /\ UNCHANGED <<formData, submittedDataList, nextId>>
    /\ UNCHANGED exceptContactForm

\* the callback of setTimeout(..., 1500): the timers fire in the order set
SubmitTimeout ==
    /\ submitTimers # <<>>
    /\ LET newSubmission == Head(submitTimers) IN
       submittedDataList' = <<newSubmission>> \o submittedDataList
    /\ nextId' = nextId + 1
    /\ formData' = EmptyForm
    /\ errors' = {}
    /\ isSubmitting' = FALSE
    /\ submitTimers' = Tail(submitTimers)
    /\ UNCHANGED exceptContactForm

\* prev.filter(submission => submission.id !== id)
WithoutId(list, id) == SelectSeq(list, LAMBDA submission : submission.id # id)

\* handleDeleteSubmission(id), from the button of an entry of the history
HandleDeleteSubmission(id) ==
    /\ \E i \in 1 .. Len(submittedDataList) : submittedDataList[i].id = id
    /\ submittedDataList' = WithoutId(submittedDataList, id)
    /\ UNCHANGED <<formData, errors, isSubmitting, nextId, submitTimers>>
    /\ UNCHANGED exceptContactForm

\* handleDeleteAll(), from the button shown when the history is not empty
HandleDeleteAll ==
    /\ Len(submittedDataList) > 0
    /\ submittedDataList' = <<>>
    /\ UNCHANGED <<formData, errors, isSubmitting, nextId, submitTimers>>
    /\ UNCHANGED exceptContactForm

ContactFormNext ==
    \/ \E field \in Fields, value \in FieldTexts : HandleChange(field, value)
    \/ HandleSubmit
    \/ SubmitTimeout
    \/ \E id \in 1 .. MaxSubmissions : HandleDeleteSubmission(id)
    \/ HandleDeleteAll

SpecContactForm == Idle /\ [][ContactFormNext]_allVars

\* C22: in every reachable state the ids in submittedDataList are pairwise
\* distinct and the list is ordered newest first (descending ids).
C22_UniqueIdsNewestFirst ==
    \A i, j \in 1 .. Len(submittedDataList) :
        i < j => submittedDataList[i].id > submittedDataList[j].id

C22_Witness ==
    /\ Len(submittedDataList) = 2
    /\ submittedDataList[1].id = 3 /\ submittedDataList[2].id = 1

\* =========================================================================
\* TimersExample: src/components/UseEffectShowcase.tsx, lines 110-166
\* =========================================================================
MaxResets == 2
MaxElapsed == 3

\* useState(10) and setCountdown(10)
CountdownStart == 10

CountdownFinished == "Countdown finished!"

\* the effects whose dependencies changed since their last run are due
CountdownEffectDue == countdownDeps # <<countdown, message>>
IntervalEffectDue == runningDep # <<isRunning>>
TimersSettled == ~CountdownEffectDue /\ ~IntervalEffectDue

\* the effects of the first render have run
TimersMounted == countdownDeps # NotRun /\ runningDep # NotRun

\* the cleanup of the first effect: clearTimeout(timeoutId)
TimeoutsAfterCleanup(id, n) == IF id = "pending" THEN n - 1 ELSE n

IntervalsAfterNoCleanup(dep, n) == n

\* the cleanup of the second effect: if (intervalId) clearInterval(intervalId)
IntervalsAfterCleanup2(dep, n) == IF dep = <<TRUE>> THEN n - 1 ELSE n

\* the render and the effects that are due: for each, the cleanup of its
\* last run and then its body (a repeated run on mount in a development
\* build is undone by the same cleanup)
RunTimersEffects ==
    /\ ~TimersSettled
    /\ IF CountdownEffectDue
       THEN LET n == TimeoutsAfterCleanup(timeoutId, timeouts) IN
            /\ countdownDeps' = <<countdown, message>>
            /\ IF countdown > 0
               THEN timeoutId' = "pending" /\ timeouts' = n + 1 /\ UNCHANGED message
               ELSE /\ timeoutId' = "none" /\ timeouts' = n
                    /\ message' = IF countdown = 0 /\ message = ""
                                  THEN CountdownFinished ELSE message
       ELSE UNCHANGED <<countdownDeps, timeoutId, timeouts, message>>
    /\ IF IntervalEffectDue
       THEN LET n == IntervalsAfterCleanup2(runningDep, intervalIds) IN
            /\ runningDep' = <<isRunning>>
            /\ intervalIds' = IF isRunning THEN n + 1 ELSE n
       ELSE UNCHANGED <<runningDep, intervalIds>>
    /\ timersClick' = FALSE
    /\ UNCHANGED <<countdown, isRunning, elapsedTime, resets>>
    /\ UNCHANGED exceptTimersExample

\* the callback of setTimeout(..., 1000): setCountdown(prev => prev - 1)
CountdownTimeout ==
    /\ ~timersClick /\ timeouts > 0
    /\ countdown' = countdown - 1
    /\ timeouts' = timeouts - 1
    /\ timeoutId' = IF timeouts = 1 /\ timeoutId = "pending" THEN "fired" ELSE timeoutId
    /\ UNCHANGED <<message, isRunning, elapsedTime, countdownDeps, runningDep,
                   intervalIds, timersClick, resets>>
    /\ UNCHANGED exceptTimersExample

\* the callback of setInterval(..., 1000): setElapsedTime(prev => prev + 1)
ElapsedInterval ==
    /\ ~timersClick /\ intervalIds > 0
    /\ elapsedTime < MaxElapsed
    /\ elapsedTime' = elapsedTime + 1
    /\ UNCHANGED <<countdown, message, isRunning, countdownDeps, runningDep,
                   timeoutId, timeouts, intervalIds, timersClick, resets>>
    /\ UNCHANGED exceptTimersExample

\* resetCountdown(), from a click; it may come after a timer callback and
\* before React renders that callback's update
ResetCountdown ==
    /\ ~timersClick /\ TimersMounted
    /\ resets < MaxResets
    /\ countdown' = CountdownStart
    /\ message' = ""
    /\ resets' = resets + 1
    /\ timersClick' = (countdownDeps # <<CountdownStart, "">>)
    /\ UNCHANGED <<isRunning, elapsedTime, countdownDeps, runningDep, timeoutId,
                   timeouts, intervalIds>>
    /\ UNCHANGED exceptTimersExample

\* toggleTimer(), from a click
ToggleTimer ==
    /\ ~timersClick /\ TimersMounted
    /\ isRunning' = ~isRunning
    /\ elapsedTime' = IF ~isRunning THEN 0 ELSE elapsedTime
    /\ timersClick' = TRUE
    /\ UNCHANGED <<countdown, message, countdownDeps, runningDep, timeoutId, timeouts,
                   intervalIds, resets>>
    /\ UNCHANGED exceptTimersExample

TimersNext ==
    \/ RunTimersEffects
    \/ CountdownTimeout
    \/ ElapsedInterval
    \/ ResetCountdown
    \/ ToggleTimer

SpecTimers == Idle /\ [][TimersNext]_allVars

\* timers fire and React runs the effects that are due
SpecTimersFair ==
    /\ SpecTimers
    /\ WF_allVars(RunTimersEffects)
    /\ WF_allVars(CountdownTimeout)

ResetStep == resets' = resets + 1

\* C23: the countdown starts at 10, stays within 0..10 with at most one
\* pending timeout; resetCountdown restores 10 and clears the message; and,
\* once the user stops pressing reset, the countdown eventually reaches 0 and
\* stays there with the 'Countdown finished' message set.
C23_CountdownReachesZero ==
    /\ [](countdownDeps = NotRun => countdown = CountdownStart)
    /\ [](countdown \in 0 .. CountdownStart /\ timeouts <= 1)
    /\ [][ResetStep => (countdown' = CountdownStart /\ message' = "")]_allVars
    /\ <>[](countdown = 0 /\ message = CountdownFinished)

\* C24: at every settled state exactly one interval is active when isRunning
\* is true and none when it is false; elapsedTime does not change while the
\* stopwatch is stopped, and starting it resets elapsedTime to 0.
C24_OneIntervalWhileRunning ==
    /\ [](TimersSettled => intervalIds = IF isRunning THEN 1 ELSE 0)
    /\ [][(~isRunning /\ ~isRunning') => elapsedTime' = elapsedTime]_allVars
    /\ [][(~isRunning /\ isRunning') => elapsedTime' = 0]_allVars

\* the stopwatch was started, ticked twice and was stopped again
C24_Witness ==
    /\ TimersSettled /\ TimersMounted
    /\ ~isRunning /\ elapsedTime = 2 /\ intervalIds = 0

\* =========================================================================
\* ResourceCleanupExample: src/components/UseEffectShowcase.tsx, lines 554-602
\* =========================================================================
MaxNow == 3
MaxWorked == 2

\* for (let i = 0; i < 3; i++)
ResourcesPerActivation == 3

\* Date.now() + i for i = 0, 1, 2; the clock may advance between the readings
ResourceIds(t0, t1, t2) == {t0, t1 + 1, t2 + 2}

ResourceEffectDue == activeDep # <<isActive>>

ResourcesAfterNoDelete(ref, res) == ref

\* the cleanup: resources.forEach(resourceId => resourcesRef.current.delete(resourceId))
ResourcesAfterCleanup(ref, res) == ref \ res

\* the render after a change of isActive, the effect (the cleanup of its last
\* run, then its body) and the render of the resourceCount it sets; on mount
\* the body does nothing, also when a development build runs it twice
RunResourceEffect ==
    /\ ResourceEffectDue
    /\ LET ref == IF hasCleanup THEN ResourcesAfterCleanup(resourcesRef, resources)
                  ELSE resourcesRef
           ivs == IF hasCleanup THEN workIntervals - 1 ELSE workIntervals
           cnt == IF hasCleanup THEN Cardinality(ref) ELSE resourceCount
       IN
       IF isActive
       THEN \E t0 \in now .. MaxNow : \E t1 \in t0 .. MaxNow : \E t2 \in t1 .. MaxNow :
               /\ resources' = ResourceIds(t0, t1, t2)
               /\ resourcesRef' = ref \cup ResourceIds(t0, t1, t2)
               /\ resourceCount' = Cardinality(ref \cup ResourceIds(t0, t1, t2))
               /\ workIntervals' = ivs + 1
               /\ hasCleanup' = TRUE
               /\ now' = t2
       ELSE /\ resources' = {}
            /\ resourcesRef' = ref
            /\ resourceCount' = cnt
            /\ workIntervals' = ivs
            /\ hasCleanup' = FALSE
            /\ UNCHANGED now
    /\ activeDep' = <<isActive>>
    /\ UNCHANGED <<isActive, worked>>
    /\ UNCHANGED exceptResourceCleanupExample

\* toggleResources(), from a click
ToggleResources ==
    /\ ~ResourceEffectDue
    /\ isActive' = ~isActive
    /\ UNCHANGED <<resourceCount, resourcesRef, activeDep, hasCleanup, resources,
                   workIntervals, now, worked>>
    /\ UNCHANGED exceptResourceCleanupExample

\* the callback of setInterval(..., 2000): it logs
WorkInterval ==
    /\ ~ResourceEffectDue /\ workIntervals > 0
    /\ worked < MaxWorked
    /\ worked' = worked + 1
    /\ UNCHANGED <<isActive, resourceCount, resourcesRef, activeDep, hasCleanup,
                   resources, workIntervals, now>>
    /\ UNCHANGED exceptResourceCleanupExample

\* time passes
ClockTick ==
    /\ now < MaxNow
    /\ now' = now + 1
    /\ UNCHANGED <<isActive, resourceCount, resourcesRef, activeDep, hasCleanup,
                   resources, workIntervals, worked>>
    /\ UNCHANGED exceptResourceCleanupExample

ResourceCleanupNext ==
    \/ RunResourceEffect
    \/ ToggleResources
    \/ WorkInterval
    \/ ClockTick

SpecResourceCleanup == Idle /\ [][ResourceCleanupNext]_allVars

\* C25: whenever isActive is false and the effect (with the cleanup of its
\* last run) has run, the resource set is empty, the displayed resourceCount
\* is 0 and no work interval is active; while active exactly the 3 resources
\* of the current activation exist.
C25_ReleasesEverything ==
    /\ (~isActive /\ ~ResourceEffectDue) =>
          (resourcesRef = {} /\ resourceCount = 0 /\ workIntervals = 0)
    /\ (isActive /\ ~ResourceEffectDue) =>
          /\ Cardinality(resourcesRef) = ResourcesPerActivation
          /\ resourcesRef = resources
          /\ resourceCount = ResourcesPerActivation
          /\ workIntervals = 1

\* resources were created, worked while time passed, and were released again
C25_Witness ==
    /\ ~isActive /\ activeDep = <<FALSE>>
    /\ now >= 2 /\ worked = 2
    /\ resourcesRef = {}

\* =========================================================================
\* DependencyArrayDemo: src/components/UseCallbackShowcase.tsx, lines 139-170
\* =========================================================================
MaxCount == 2
MaxLogs == 2

\* what the input's onChange passes to setName
Names == {"John", "Jane"}

\* `Bad: Count is ${count}, Name is ${name}` and its Good counterpart
LogMessage(tag, c, n) == <<tag, ": Count is ", c, ", Name is ", n>>

FunctionalMessage == <<"Functional: Using functional updates">>

UseCallbackFresh(cached, cachedDeps, fresh, deps) == fresh

\* useCallback(fn, deps): the cached function unless a dependency changed
UseCallback(cached, cachedDeps, fresh, deps) ==
    IF deps = cachedDeps THEN cached ELSE fresh

\* the render of the state c, n, flushed with the click that set it
RenderDeps(c, n) ==
    /\ handleBadCallback' = UseCallback(handleBadCallback, <<>>, Closure(c, n), <<>>)
    /\ handleGoodCallback' = UseCallback(handleGoodCallback, goodDeps, Closure(c, n), <<c, n>>)
    /\ goodDeps' = <<c, n>>

\* 'Increment Count': setCount(prev => prev + 1)
IncrementCount ==
    /\ count < MaxCount
    /\ count' = count + 1
    /\ RenderDeps(count + 1, name)
    /\ clicked' = "increment"
    /\ UNCHANGED <<name, logs>>
    /\ UNCHANGED exceptDependencyArrayDemo

\* the input's onChange: setName(e.target.value)
SetName(value) ==
    /\ value # name
    /\ name' = value
    /\ RenderDeps(count, value)
    /\ clicked' = "name"
    /\ UNCHANGED <<count, logs>>
    /\ UNCHANGED exceptDependencyArrayDemo

\* a click on 'Bad Callback'
HandleBadCallback ==
    /\ Len(logs) < MaxLogs
    /\ logs' = Append(logs, LogMessage("Bad", handleBadCallback.count, handleBadCallback.name))
    /\ RenderDeps(count, name)
    /\ clicked' = "bad"
    /\ UNCHANGED <<count, name>>
    /\ UNCHANGED exceptDependencyArrayDemo

\* a click on 'Good Callback'
HandleGoodCallback ==
    /\ Len(logs) < MaxLogs
    /\ logs' = Append(logs, LogMessage("Good", handleGoodCallback.count, handleGoodCallback.name))
    /\ RenderDeps(count, name)
    /\ clicked' = "good"
    /\ UNCHANGED <<count, name>>
    /\ UNCHANGED exceptDependencyArrayDemo

\* a click on 'Functional Update'
HandleFunctionalUpdate ==
    /\ Len(logs) < MaxLogs /\ count < MaxCount
    /\ logs' = Append(logs, FunctionalMessage)
    /\ count' = count + 1
    /\ RenderDeps(count + 1, name)
    /\ clicked' = "functional"
    /\ UNCHANGED name
    /\ UNCHANGED exceptDependencyArrayDemo

\* a click on 'Clear'
ClearLogs ==
    /\ logs # <<>>
    /\ logs' = <<>>
    /\ RenderDeps(count, name)
    /\ clicked' = "clear"
    /\ UNCHANGED <<count, name>>
    /\ UNCHANGED exceptDependencyArrayDemo

DependencyArrayNext ==
    \/ IncrementCount
    \/ \E value \in Names : SetName(value)
    \/ HandleBadCallback
    \/ HandleGoodCallback
    \/ HandleFunctionalUpdate
    \/ ClearLogs

SpecDependencyArray == Idle /\ [][DependencyArrayNext]_allVars

\* C26: after any sequence of count increments and name edits, a click on
\* 'Good Callback' logs the current count and name, and a click on 'Bad
\* Callback' logs the count and name of the first render, 0 and 'John'.
C26_GoodCurrentBadFirstRender ==
    /\ clicked = "good" => logs[Len(logs)] = LogMessage("Good", count, name)
    /\ clicked = "bad" => logs[Len(logs)] = LogMessage("Bad", 0, "John")

\* 'Bad Callback' was clicked after the count and the name had changed
C26_Witness ==
    /\ clicked = "bad" /\ count = 2 /\ name = "Jane"
    /\ Len(logs) = 2 /\ logs[1] = LogMessage("Good", 2, "Jane")

\* =========================================================================
\* ApiCallExample: src/components/UseEffectShowcase.tsx, lines 23-54
\* =========================================================================
MaxUserId == 3
MaxRequests == 4
MaxPosts == 4

\* the options of the select
UserIds == 1 .. MaxUserId

\* data.slice(0, 3)
ShownPosts == 3

\* the posts the server holds for a user
PostsData(u) == [i \in 1 .. MaxPosts |-> [id |-> (u - 1) * MaxPosts + i, userId |-> u]]

\* data.slice(0, 3)
FirstPosts(data) == SubSeq(data, 1, IF Len(data) < ShownPosts THEN Len(data) ELSE ShownPosts)

\* the message of the error thrown on a response that is not ok, and that of
\* the TypeError fetch rejects with
FetchFailures == {"Failed to fetch posts", "Failed to fetch"}

\* the sequence without its i-th element
WithoutRequest(rs, i) == SubSeq(rs, 1, i - 1) \o SubSeq(rs, i + 1, Len(rs))

Outstanding(u) == \E i \in 1 .. Len(requests) : requests[i] = u

\* fetchPosts() up to its first await, n times for the user id u
FetchPostsStart(u, n) ==
    /\ postsLoading' = TRUE
    /\ postsError' = "null"
    /\ requests' = requests \o [i \in 1 .. n |-> u]
    /\ sent' = sent + n

\* the mount and its effect, which a development build runs twice
MountApiCall(runs) ==
    /\ ~apiMounted
    /\ apiMounted' = TRUE
    /\ FetchPostsStart(userId, runs)
    /\ UNCHANGED <<posts, userId>>
    /\ UNCHANGED exceptApiCallExample

\* the select's onChange: setUserId(Number(e.target.value)), and the effect of
\* the render it causes
SelectUser(u) ==
    /\ apiMounted /\ u # userId
    /\ sent < MaxRequests
    /\ userId' = u
    /\ FetchPostsStart(u, 1)
    /\ UNCHANGED <<posts, apiMounted>>
    /\ UNCHANGED exceptApiCallExample

\* the i-th fetch completes with an ok response: setPosts, then finally
FetchResolves(i) ==
    /\ i \in 1 .. Len(requests)
    /\ posts' = FirstPosts(PostsData(requests[i]))
    /\ postsLoading' = FALSE
    /\ requests' = WithoutRequest(requests, i)
    /\ UNCHANGED <<postsError, userId, apiMounted, sent>>
    /\ UNCHANGED exceptApiCallExample

\* the i-th fetch fails: catch, then finally
FetchRejects(i, text) ==
    /\ i \in 1 .. Len(requests)
    /\ postsError' = text
    /\ postsLoading' = FALSE
    /\ requests' = WithoutRequest(requests, i)
    /\ UNCHANGED <<posts, userId, apiMounted, sent>>
    /\ UNCHANGED exceptApiCallExample

ApiCallNext ==
    \/ \E runs \in EffectRuns : MountApiCall(runs)
    \/ \E u \in UserIds : SelectUser(u)
    \/ \E i \in 1 .. MaxRequests + 1 : FetchResolves(i)
    \/ \E i \in 1 .. MaxRequests + 1 : \E text \in FetchFailures : FetchRejects(i, text)

SpecApiCall == Idle /\ [][ApiCallNext]_allVars

\* the list of posts is on the page
ShowsPosts == ~postsLoading /\ postsError = "null"

\* C27: for any interleaving of selections and fetch completions, once no
\* request is outstanding the posts on the page are those fetched for the
\* selected userId, and loading is true whenever a request for the selected
\* userId is outstanding.
C27_PostsOfSelectedUser ==
    /\ (apiMounted /\ requests = <<>> /\ ShowsPosts) =>
          posts = FirstPosts(PostsData(userId))
    /\ Outstanding(userId) => postsLoading

====
